---- MODULE Spec2Model ----
(***************************************************************************)
(* Session aggregation and member rollup of the Mahjong league tracker.    *)
(*                                                                         *)
(* State: the RawScore, CalculatedScore and Member tables, the teams'      *)
(* scoring configuration, the TeamAdmin table, the calendar                *)
(* month, the requests being served, the record of the last call and what  *)
(* the last read returned.                                                 *)
(* Operations: submit_session_scores, update_session_scores,               *)
(* recalculate_member_score and the read paths get_session_details,        *)
(* get_team_standings_by_month and get_team_standings                      *)
(* (scores/services/calculator.py); the REST endpoints                     *)
(* SessionSubmitAPIView, SessionUpdateAPIView and SessionDeleteAPIView     *)
(* (scores/api_views.py) behind SessionScoresSerializer                    *)
(* (scores/api_serializers.py); RawScore.save (scores/models.py);          *)
(* MemberDeleteView, TeamUpdateView and RemoveTeamAdminView                *)
(* (teams/views.py).                                                       *)
(*                                                                         *)
(* Specifications: Spec calls the service functions on two teams;          *)
(* LeagueSpec follows one team through ties, member deletions, month       *)
(* ends and the read paths; SiteSpec serves the endpoints, the team form   *)
(* and single row saves one request at a time; RaceSpec serves the         *)
(* endpoints and the admin removal on two workers, statement by            *)
(* statement.                                                              *)
(*                                                                         *)
(* Numbers: a calculated score is a float in the code; here it is an       *)
(* exact integer count of 1/PointScale points, so that /1000.0 and the     *)
(* averaging over 2, 3 or 4 tied ranks stay exact.  Averages are reduced   *)
(* fractions <<numerator, denominator>>.  A placement is carried as twice  *)
(* its value (1.5 is 3) until the IntegerField stores it.                  *)
(***************************************************************************)
EXTENDS Integers, Sequences, FiniteSets, TLC

VARIABLES
    raw_scores,         \* the RawScore table: <<team, session_id>> -> set of rows
    calculated_scores,  \* the CalculatedScore table: member id -> row (partial)
    teams,              \* team id -> scoring configuration
    last,               \* the last call: operation, arguments, outcome, return,
                        \* and the rows the session held when it was made
    calls,              \* number of calls and requests made and months passed
    members,            \* the Member table: the ids of the members that exist
    now,                \* the calendar month (year and month as one number)
    view,               \* what the last read path returned
    team_admins,        \* the TeamAdmin table: set of <<user, team>>
    requests            \* worker -> the request it is serving, step by step

vars == <<raw_scores, calculated_scores, teams, last, calls, members, now, view,
          team_admins, requests>>

---------------------------------------------------------------------------
(* Bounds and the directory of teams and members.                          *)

\* Number of steps (calls and month ends) a run makes.
MaxCalls == 4

\* Largest chombo count an entry carries.
MaxChombo == 2

\* The calendar months a run lives through: 1 .. MaxMonth.
MaxMonth == 2

\* The session ids in use.
SessionIds == {"s1", "s2"}

TeamIds == {1, 2}

\* teams.Member: member id -> owning team.  Team 1 has eight members (two
\* disjoint tables of four), team 2 has four.
Member ==
    [m \in (1..8) \cup (11..14) |-> [team |-> IF m <= 8 THEN 1 ELSE 2]]

MemberIds == DOMAIN Member

\* auth.User: the users that hold an API token.
Users == {"ann", "bob", "eve"}

\* The TeamAdmin rows after the teams were set up: the creator of team 1
\* has added a second admin; team 2 has its creator only.
FoundingAdmins == {<<"ann", 1>>, <<"bob", 1>>, <<"eve", 2>>}

\* The server's workers, each serving one request at a time, and the
\* state of a worker that serves none.
Workers == {1, 2}
Idle == [op |-> "idle"]

\* teams.Team defaults of the scoring configuration.
DefaultTeam ==
    [target_point |-> 30000, uma_first |-> 15, uma_second |-> 5,
     uma_third |-> 0 - 5, uma_fourth |-> 0 - 15, chombo_enabled |-> TRUE]

\* One point, in model units: 1000 for the /1000.0 of the base score, 12
\* for the division by 2, 3 or 4 tied ranks.
PointScale == 12 * 1000

---------------------------------------------------------------------------
(* Helpers.                                                                *)

RECURSIVE GCD(_, _)
GCD(a, b) == IF b = 0 THEN a ELSE GCD(b, a % b)

Abs(n) == IF n < 0 THEN 0 - n ELSE n

\* n / d as a reduced fraction, d > 0.
Fraction(n, d) ==
    LET g == GCD(Abs(n), d) IN <<n \div g, d \div g>>

Zero == <<0, 1>>

\* dict.get(key) is None
Missing(data, key) == key \notin DOMAIN data

\* dict.get(key, default)
Get(data, key, default) == IF key \in DOMAIN data THEN data[key] ELSE default

\* RawScore.objects.filter(member__team=team, session_id=session_id): the
\* table is kept grouped by the two columns every query filters on.
SessionScores(rs, team, session_id) == rs[<<team, session_id>>]

---------------------------------------------------------------------------
(* Member Rollup: CalculatedScore.compute_stats and                        *)
(* recalculate_member_score.                                               *)

\* The default ordering of RawScore is -created_at; seq is the creation
\* order of the rows of one (team, session_id), so the queryset lists a
\* row of higher seq first.  sorted(..., reverse=True) is stable: among
\* equal scores the row listed first comes first.  The 1-based index of
\* row `mine` in that list:
SortedIndex(session_all_scores, mine) ==
    1 + Cardinality({s \in session_all_scores :
            \/ s.score > mine.score
            \/ (s.score = mine.score /\ s.seq > mine.seq)})

\* A uma_map keyed from 0, as the indices of the sorted list are: the
\* winner gets the second uma and the last player none.
UmaMapKeyedFromZero(team, placement) ==
    CASE placement = 1 -> team.uma_second
      [] placement = 2 -> team.uma_third
      [] placement = 3 -> team.uma_fourth
      [] OTHER -> 0

\* uma_map.get(placement, 0)
UmaMap(team, placement) ==
    CASE placement = 1 -> team.uma_first
      [] placement = 2 -> team.uma_second
      [] placement = 3 -> team.uma_third
      [] placement = 4 -> team.uma_fourth
      [] OTHER -> 0

\* The loop body of compute_stats applying the chombo penalty whatever the
\* team's chombo_enabled says.
SessionStatsAlwaysPenalised(rs, team, member, session_id) ==
    LET session_all_scores == SessionScores(rs, Member[member].team, session_id)
        member_raw_score == CHOOSE r \in session_all_scores : r.member = member
        placement == SortedIndex(session_all_scores, member_raw_score)
        base == (member_raw_score.score - team.target_point) * (PointScale \div 1000)
                + UmaMap(team, placement) * PointScale
    IN  [placement |-> placement,
         calculated |-> base - 30 * member_raw_score.chombo * PointScale,
         chombo |-> member_raw_score.chombo]

\* One iteration of the loop of compute_stats for a counted session: the
\* placement appended, the calculated score added to total_score and the
\* chombo units added to chombo_total.
SessionStats(rs, team, member, session_id) ==
    LET session_all_scores == SessionScores(rs, Member[member].team, session_id)
        member_raw_score == CHOOSE r \in session_all_scores : r.member = member
        placement == SortedIndex(session_all_scores, member_raw_score)
        uma == UmaMap(team, placement)
        base == (member_raw_score.score - team.target_point) * (PointScale \div 1000)
                + uma * PointScale
        penalised == member_raw_score.chombo > 0 /\ team.chombo_enabled
    IN  [placement |-> placement,
         calculated |-> IF penalised
                        THEN base - 30 * member_raw_score.chombo * PointScale
                        ELSE base,
         chombo |-> IF penalised THEN member_raw_score.chombo ELSE 0]

\* compute_stats without the skip of incomplete sessions: every session
\* the member has a row in is counted.
CountedSessionsOfAnySize(rs, member) ==
    {sid \in SessionIds :
        \E r \in SessionScores(rs, Member[member].team, sid) : r.member = member}

\* The sessions compute_stats counts for a member: those the member has a
\* row in and that hold exactly 4 rows of the member's team.
CountedSessions(rs, member) ==
    {sid \in SessionIds :
        /\ \E r \in SessionScores(rs, Member[member].team, sid) : r.member = member
        /\ Cardinality(SessionScores(rs, Member[member].team, sid)) = 4}

\* The accumulators of the loop of compute_stats after the sessions S.
RECURSIVE Accumulate(_, _, _, _)
Accumulate(rs, team, member, S) ==
    IF S = {}
    THEN [total_score |-> 0, placements |-> 0, chombo_total |-> 0]
    ELSE LET sid == CHOOSE x \in S : TRUE
             one == SessionStats(rs, team, member, sid)
             rest == Accumulate(rs, team, member, S \ {sid})
         IN  [total_score |-> rest.total_score + one.calculated,
              placements |-> rest.placements + one.placement,
              chombo_total |-> rest.chombo_total + one.chombo]

compute_stats(rs, team, member) ==
    LET sessions_participated == CountedSessions(rs, member)
        acc == Accumulate(rs, team, member, sessions_participated)
        games == Cardinality(sessions_participated)
    IN  [total |-> acc.total_score,
         games_played |-> games,
         average_per_game |->
            IF games > 0 THEN Fraction(acc.total_score, games) ELSE Zero,
         average_placement |->
            IF games > 0 THEN Fraction(acc.placements, games) ELSE Zero,
         chombo_count |-> acc.chombo_total]

\* recalculate_member_score with a compute_stats that does not reset its
\* accumulators: the total computed is added to the total stored.
recalculate_adds_to_stored(cs, rs, cfg, affected) ==
    [m \in DOMAIN cs \cup affected |->
        IF m \in affected
        THEN LET stats == compute_stats(rs, cfg[Member[m].team], m)
             IN  [stats EXCEPT !.total = @ + (IF m \in DOMAIN cs THEN cs[m].total ELSE 0)]
        ELSE cs[m]]

\* recalculate_member_score for every member of `affected`, against the
\* rows rs: get_or_create, compute_stats, save.  Each member's result
\* depends on rs alone, so the order of the calls does not matter.
recalculate_member_score(cs, rs, cfg, affected) ==
    [m \in DOMAIN cs \cup affected |->
        IF m \in affected
        THEN compute_stats(rs, cfg[Member[m].team], m)
        ELSE cs[m]]

---------------------------------------------------------------------------
(* Session Aggregator: submit_session_scores.                              *)

\* RawScore.clean, as full_clean runs it on a row not yet saved: the
\* member already has a row in this session.
RawScore_clean_fails(rs, member, session_id) ==
    \E r \in SessionScores(rs, Member[member].team, session_id) :
        r.member = member

\* The validation loop without raw_score.full_clean().
EntryRejectedWithoutClean(rs, mem, team, session_id, data) ==
    \/ Missing(data, "member_id")
    \/ Missing(data, "score")
    \/ data.member_id \notin mem
    \/ Member[data.member_id].team # team

\* The body of the validation loop raises ValidationError for entry `data`.
EntryRejected(rs, mem, team, session_id, data) ==
    \/ Missing(data, "member_id")
    \/ Missing(data, "score")
    \/ data.member_id \notin mem                 \* Member.DoesNotExist
    \/ Member[data.member_id].team # team        \* Member.DoesNotExist
    \/ RawScore_clean_fails(rs, data.member_id, session_id)

\* Index (0-based) of entry i in sorted(raw_scores, key=score, reverse=True),
\* a stable sort of the entries in the order they were given.
SortedPosition(score_data, i) ==
    Cardinality({j \in DOMAIN score_data :
        \/ score_data[j].score > score_data[i].score
        \/ (score_data[j].score = score_data[i].score /\ j < i)})

\* sum(range(a, b + 1))
RECURSIVE SumRange(_, _)
SumRange(a, b) == IF a > b THEN 0 ELSE a + SumRange(a + 1, b)

\* The tie loop giving every tied entry the first of the tied positions
\* instead of their average.
AssignedFirstTiedPlacement2(score_data, i) ==
    2 * (1 + Cardinality({j \in DOMAIN score_data :
                            score_data[j].score > score_data[i].score}))

\* The placement the tie loop assigns to entry i, times two.
AssignedPlacement2(score_data, i) ==
    LET score_value == score_data[i].score
        tied_scores == {j \in DOMAIN score_data : score_data[j].score = score_value}
        first_tied_idx == Cardinality({j \in DOMAIN score_data :
                                        score_data[j].score > score_value})
        n == Cardinality(tied_scores)
    IN  IF n > 1
        THEN (2 * SumRange(first_tied_idx + 1, first_tied_idx + n)) \div n
        ELSE 2 * (SortedPosition(score_data, i) + 1)

\* IntegerField.get_prep_value: int(value) of the placement assigned.
StoredPlacement(placement2) == placement2 \div 2

\* Highest seq among the rows of the session (0 when it has none).
LastSeq(rs, team, session_id) ==
    LET S == {r.seq : r \in SessionScores(rs, team, session_id)}
    IN  IF S = {} THEN 0 ELSE CHOOSE n \in S : \A k \in S : k <= n

\* bulk_create raises IntegrityError: two rows of the batch, or a row of
\* the batch and a stored row, share (member, session_id).
UniqueTogetherViolated(rs, session_id, score_data) ==
    \/ \E i, j \in DOMAIN score_data :
          i # j /\ score_data[i].member_id = score_data[j].member_id
    \/ \E i \in DOMAIN score_data :
          \E r \in SessionScores(rs, Member[score_data[i].member_id].team, session_id) :
              r.member = score_data[i].member_id

\* The rows bulk_create inserts, one per entry; created_at is the month
\* auto_now_add stamps them with.
NewRows(rs, created_at, team, session_id, score_data) ==
    {[member |-> score_data[i].member_id,
      score |-> score_data[i].score,
      chombo |-> Get(score_data[i], "chombo", 0),
      placement |-> StoredPlacement(AssignedPlacement2(score_data, i)),
      seq |-> LastSeq(rs, team, session_id) + i,
      created_at |-> created_at] : i \in DOMAIN score_data}

\* submit_session_scores against the tables (rs, cs): the outcome, the
\* tables it leaves and the length of the list it returns.
submit_session_scores(rs, cs, cfg, mem, created_at, session_id, team, score_data) ==
    IF Len(score_data) # 4
        \/ \E i \in DOMAIN score_data :
              EntryRejected(rs, mem, team, session_id, score_data[i])
    THEN [outcome |-> "ValidationError", rs |-> rs, cs |-> cs, returned |-> 0]
    ELSE IF UniqueTogetherViolated(rs, session_id, score_data)
    THEN [outcome |-> "IntegrityError", rs |-> rs, cs |-> cs, returned |-> 0]
    ELSE LET rows == [rs EXCEPT ![<<team, session_id>>] =
                        @ \cup NewRows(rs, created_at, team, session_id, score_data)]
         IN  [outcome |-> "ok",
              rs |-> rows,
              cs |-> recalculate_member_score(cs, rows, cfg,
                        {score_data[i].member_id : i \in DOMAIN score_data}),
              returned |-> Len(score_data)]

\* update_session_scores without the recalculation of the members of the
\* old rows: only submit's own recalculation of the new members is left.
update_recalculates_new_only(rs, cs, cfg, mem, created_at, session_id, team, score_data) ==
    submit_session_scores([rs EXCEPT ![<<team, session_id>>] = {}], cs, cfg,
                          mem, created_at, session_id, team, score_data)

\* update_session_scores whose old_scores query filters on session_id
\* alone: the rows of every team under the session_id are deleted.
update_deletes_every_team(rs, cs, cfg, mem, created_at, session_id, team, score_data) ==
    LET affected_members ==
            {r.member : r \in UNION {rs[<<t, session_id>>] : t \in TeamIds}}
        deleted == [k \in DOMAIN rs |-> IF k[2] = session_id THEN {} ELSE rs[k]]
        submitted == submit_session_scores(deleted, cs, cfg, mem, created_at,
                                           session_id, team, score_data)
    IN  IF submitted.outcome = "ok"
        THEN [submitted EXCEPT
                !.cs = recalculate_member_score(cs, submitted.rs, cfg,
                          affected_members \cup
                          {score_data[i].member_id : i \in DOMAIN score_data})]
        ELSE submitted

\* update_session_scores: the old rows are deleted, then submit runs; the
\* rollups of old and new members are recomputed only when submit returns.
update_session_scores(rs, cs, cfg, mem, created_at, session_id, team, score_data) ==
    LET old_scores == SessionScores(rs, team, session_id)
        affected_members == {r.member : r \in old_scores}
        deleted == [rs EXCEPT ![<<team, session_id>>] = {}]
        submitted == submit_session_scores(deleted, cs, cfg, mem, created_at,
                                           session_id, team, score_data)
    IN  IF submitted.outcome = "ok"
        THEN [submitted EXCEPT
                !.cs = recalculate_member_score(cs, submitted.rs, cfg,
                          affected_members \cup
                          {score_data[i].member_id : i \in DOMAIN score_data})]
        ELSE submitted

\* SessionDeleteAPIView.delete after the permission check.
session_delete(rs, cs, cfg, session_id, team) ==
    LET session_scores == SessionScores(rs, team, session_id)
        affected_members == {r.member : r \in session_scores}
        deleted == [rs EXCEPT ![<<team, session_id>>] = {}]
    IN  IF session_scores = {}
        THEN [outcome |-> "NotFound", rs |-> rs, cs |-> cs, returned |-> 0]
        ELSE [outcome |-> "ok",
              rs |-> deleted,
              cs |-> recalculate_member_score(cs, deleted, cfg, affected_members),
              returned |-> Cardinality(session_scores)]

\* Member.delete() of MemberDeleteView: the cascade removes the member's
\* RawScore rows and CalculatedScore with the member; no rollup of another
\* member is recomputed.
member_delete(rs, cs, mem, member) ==
    [rs |-> [k \in DOMAIN rs |-> {r \in rs[k] : r.member # member}],
     cs |-> [m \in DOMAIN cs \ {member} |-> cs[m]],
     mem |-> mem \ {member}]

---------------------------------------------------------------------------
(* Read paths: get_session_details, get_team_standings_by_month,           *)
(* get_team_standings and Team.get_standings.                              *)

\* What a read path returns when it returns None, and the value of view
\* before any read.
None == [none |-> TRUE]

\* team.members.all()
TeamMembers(mem, team) == {m \in mem : Member[m].team = team}

\* [s for s in sorted_scores if s.score == score_value]
TiedScores(session_scores, mine) ==
    {s \in session_scores : s.score = mine.score}

\* next(i for i, s in enumerate(sorted_scores) if s.score == score_value)
FirstTiedIdx(session_scores, mine) ==
    Cardinality({s \in session_scores : s.score > mine.score})

\* The placement of row `mine` among session_scores, times two: the
\* average of the tied positions, or the index in the sorted list.
SharedPlacement2(session_scores, mine) ==
    LET n == Cardinality(TiedScores(session_scores, mine))
        first_tied_idx == FirstTiedIdx(session_scores, mine)
    IN  IF n > 1
        THEN (2 * SumRange(first_tied_idx + 1, first_tied_idx + n)) \div n
        ELSE 2 * SortedIndex(session_scores, mine)

\* sum(uma_map.get(pos, 0) for pos in range(a, b + 1))
RECURSIVE SumUma(_, _, _)
SumUma(team, a, b) ==
    IF a > b THEN 0 ELSE UmaMap(team, a) + SumUma(team, a + 1, b)

\* The uma of row `mine`, in 1/PointScale points: the average of the uma
\* of the tied positions, or uma_map.get(int(placement), 0).
SharedUma(team, session_scores, mine, placement2) ==
    LET n == Cardinality(TiedScores(session_scores, mine))
        first_tied_idx == FirstTiedIdx(session_scores, mine)
    IN  IF n > 1
        THEN (SumUma(team, first_tied_idx + 1, first_tied_idx + n) * PointScale) \div n
        ELSE UmaMap(team, placement2 \div 2) * PointScale

\* (score - target_point) / 1000.0, in 1/PointScale points.
BaseScore(team, score) == (score - team.target_point) * (PointScale \div 1000)

\* round(placement) of Python 3: halves go to the even neighbour.
Round2(placement2) ==
    LET lower == placement2 \div 2
    IN  IF placement2 % 2 = 0 THEN lower
        ELSE IF lower % 2 = 0 THEN lower ELSE lower + 1

\* get_session_details: None unless the session holds exactly 4 rows of
\* the team; otherwise one entry per row.  The list is ordered by the
\* stored placement; it is given here by member, without the order.
\* The placement reported is the stored one unless it is empty (a row
\* saved without placement is stored here with placement 0).
get_session_details(rs, cfg, session_id, team) ==
    LET raw_scores_of_session == SessionScores(rs, team, session_id)
        Player(raw_score) ==
            LET placement2 ==
                    IF raw_score.placement # 0
                    THEN 2 * raw_score.placement
                    ELSE SharedPlacement2(raw_scores_of_session, raw_score)
                uma == SharedUma(cfg[team], raw_scores_of_session, raw_score, placement2)
                base_score == BaseScore(cfg[team], raw_score.score)
                calculated == base_score + uma
            IN  [member |-> raw_score.member,
                 placement2 |-> placement2,
                 raw_score |-> raw_score.score,
                 base_score |-> base_score,
                 uma |-> uma,
                 chombo |-> raw_score.chombo,
                 calculated_score |->
                    IF raw_score.chombo # 0 /\ cfg[team].chombo_enabled
                    THEN calculated - 30 * PointScale
                    ELSE calculated]
    IN  IF Cardinality(raw_scores_of_session) # 4
        THEN None
        ELSE [session_id |-> session_id,
              players |-> {Player(r) : r \in raw_scores_of_session}]

\* monthly_raw_scores grouped by session: the rows of the team's session
\* created in the month.
MonthlySession(rs, team, session_id, month) ==
    {r \in SessionScores(rs, team, session_id) : r.created_at = month}

\* The sessions get_team_standings_by_month counts: 4 rows in the month.
MonthlySessions(rs, team, month) ==
    {sid \in SessionIds : Cardinality(MonthlySession(rs, team, sid, month)) = 4}

\* One pass of the inner loop of get_team_standings_by_month for a row.
MonthlyStats(team, session_scores, raw_score) ==
    LET placement2 == SharedPlacement2(session_scores, raw_score)
        uma == SharedUma(team, session_scores, raw_score, placement2)
        calculated == BaseScore(team, raw_score.score) + uma
        penalised == raw_score.chombo > 0 /\ team.chombo_enabled
    IN  [placement2 |-> placement2,
         calculated |-> IF penalised
                        THEN calculated - 30 * raw_score.chombo * PointScale
                        ELSE calculated,
         chombo |-> IF penalised THEN raw_score.chombo ELSE 0,
         placement_rounded |-> Round2(placement2)]

\* member_scores[member] after the counted sessions S that hold a row of
\* the member.
RECURSIVE MonthlyAccumulate(_, _, _, _, _)
MonthlyAccumulate(rs, cfg, member, month, S) ==
    IF S = {}
    THEN [total |-> 0, games |-> 0, placements |-> 0, chombo_count |-> 0,
          first_place |-> 0, second_place |-> 0, third_place |-> 0,
          fourth_place |-> 0]
    ELSE LET sid == CHOOSE x \in S : TRUE
             team == Member[member].team
             session_scores == MonthlySession(rs, team, sid, month)
             one == MonthlyStats(cfg[team], session_scores,
                        CHOOSE r \in session_scores : r.member = member)
             rest == MonthlyAccumulate(rs, cfg, member, month, S \ {sid})
             Count(place) == IF one.placement_rounded = place THEN 1 ELSE 0
         IN  [total |-> rest.total + one.calculated,
              games |-> rest.games + 1,
              placements |-> rest.placements + one.placement2,
              chombo_count |-> rest.chombo_count + one.chombo,
              first_place |-> rest.first_place + Count(1),
              second_place |-> rest.second_place + Count(2),
              third_place |-> rest.third_place + Count(3),
              fourth_place |-> rest.fourth_place + Count(4)]

\* sorted(members, key=total, reverse=True) over team.members.all(), which
\* lists the members by name (here: by id); the sort is stable.
SortedMembers(ms, total) ==
    [i \in 1..Cardinality(ms) |->
        CHOOSE m \in ms :
            i = 1 + Cardinality({x \in ms :
                        \/ total[x] > total[m]
                        \/ (total[x] = total[m] /\ x < m)})]

\* get_team_standings_by_month: the attributes attached to every member
\* of the team, and the members in the order returned.
get_team_standings_by_month(rs, cfg, mem, team, month) ==
    LET ms == TeamMembers(mem, team)
        exists == \E sid \in SessionIds : MonthlySession(rs, team, sid, month) # {}
        Sessions(m) ==
            {sid \in MonthlySessions(rs, team, month) :
                \E r \in MonthlySession(rs, team, sid, month) : r.member = m}
        Attached(m) ==
            LET acc == MonthlyAccumulate(rs, cfg, m, month, Sessions(m))
            IN  [monthly_total |-> acc.total,
                 monthly_games |-> acc.games,
                 monthly_average |->
                    IF acc.games > 0 THEN Fraction(acc.total, acc.games) ELSE Zero,
                 monthly_avg_placement |->
                    IF acc.games > 0 THEN Fraction(acc.placements, 2 * acc.games)
                    ELSE Zero,
                 monthly_chombo_count |-> acc.chombo_count,
                 monthly_first_place |-> acc.first_place,
                 monthly_second_place |-> acc.second_place,
                 monthly_third_place |-> acc.third_place,
                 monthly_fourth_place |-> acc.fourth_place]
        attrs == [m \in ms |->
                    IF exists
                    THEN Attached(m)
                    ELSE [monthly_total |-> 0, monthly_games |-> 0,
                          monthly_average |-> Zero]]
    IN  [attrs |-> attrs,
         members |-> SortedMembers(ms, [m \in ms |-> attrs[m].monthly_total])]

\* get_team_standings: ORDER BY calculated_score.total DESC over the outer
\* join of the team's members with their CalculatedScore.  A member
\* without CalculatedScore has a NULL total, which the database puts
\* before every value (nulls_first) or after every value, by its kind.
\* The order among equal totals is the database's; the result is given
\* as each member's place, members of equal total sharing one.
get_team_standings(cs, mem, team, nulls_first) ==
    LET ms == TeamMembers(mem, team)
        Ahead(x, m) ==
            IF x \in DOMAIN cs /\ m \in DOMAIN cs THEN cs[x].total > cs[m].total
            ELSE IF x \in DOMAIN cs THEN ~nulls_first /\ m \notin DOMAIN cs
            ELSE nulls_first /\ m \in DOMAIN cs
    IN  [m \in ms |-> 1 + Cardinality({x \in ms : Ahead(x, m)})]

\* Team.get_standings: sorted() by the total, 0 for a member without
\* CalculatedScore, highest first.
Team_get_standings(cs, mem, team) ==
    LET ms == TeamMembers(mem, team)
    IN  SortedMembers(ms, [m \in ms |-> IF m \in DOMAIN cs THEN cs[m].total ELSE 0])

---------------------------------------------------------------------------
(* The calls made: every score_data a caller passes is one of these.       *)

\* The seats of a session, member ids in entry order: of team 1 the table
\* A = 1-4, the table B with member 4 replaced by 5 and the table C
\* disjoint from A; of team 2 its only table D.
TableA == <<1, 2, 3, 4>>
TableB == <<1, 2, 3, 5>>
TableC == <<5, 6, 7, 8>>
TableD == <<11, 12, 13, 14>>

\* (score, chombo) by seat: all scores distinct, and two tied pairs.
Distinct ==
    <<[score |-> 40000, chombo |-> 0], [score |-> 30000, chombo |-> 0],
      [score |-> 20000, chombo |-> 0], [score |-> 10000, chombo |-> MaxChombo]>>
Tied ==
    <<[score |-> 30000, chombo |-> 0], [score |-> 30000, chombo |-> 1],
      [score |-> 20000, chombo |-> 0], [score |-> 20000, chombo |-> 0]>>

Entries(table, payload) ==
    [i \in DOMAIN table |->
        [member_id |-> table[i],
         score |-> payload[i].score,
         chombo |-> payload[i].chombo]]

\* An entry list whose second entry has no score.
WithoutScore(score_data) ==
    [score_data EXCEPT ![2] = [member_id |-> score_data[2].member_id,
                               chombo |-> score_data[2].chombo]]

\* Entry lists that pass validation on an empty table.
WellFormed ==
    [team \in TeamIds |->
        IF team = 1
        THEN {Entries(TableA, Distinct), Entries(TableB, Tied),
              Entries(TableC, Distinct)}
        ELSE {Entries(TableD, Distinct)}]

\* Entry lists that validation or the unique constraint must refuse: a
\* member seated twice, a member of the other team, three entries, an
\* entry without score.
IllFormed ==
    [team \in TeamIds |->
        IF team = 1
        THEN {Entries(<<1, 1, 2, 3>>, Distinct),
              Entries(<<1, 2, 3, 11>>, Distinct),
              Entries(<<1, 2, 3>>, Distinct),
              WithoutScore(Entries(TableA, Distinct))}
        ELSE {}]

ScoreData == [team \in TeamIds |-> WellFormed[team] \cup IllFormed[team]]

---------------------------------------------------------------------------
(* The state machine.                                                      *)

NoCall ==
    [op |-> "none", team |-> 0, session_id |-> "", score_data |-> <<>>,
     outcome |-> "none", count |-> 0, old_scores |-> {},
     member |-> 0, month |-> 0, user |-> "", status |-> 0]

Init ==
    /\ raw_scores = [k \in TeamIds \X SessionIds |-> {}]
    /\ calculated_scores = <<>>
    /\ teams = [t \in TeamIds |-> DefaultTeam]
    /\ last = NoCall
    /\ calls = 0
    /\ members = MemberIds
    /\ now = 1
    /\ view = None
    /\ team_admins = FoundingAdmins
    /\ requests = [w \in Workers |-> Idle]

\* A call of submit_session_scores(session_id, team, score_data).
SubmitSession(team, session_id, score_data) ==
    LET done == submit_session_scores(raw_scores, calculated_scores, teams,
                                      members, now, session_id, team, score_data)
    IN  /\ calls < MaxCalls
        /\ calls' = calls + 1
        /\ raw_scores' = done.rs
        /\ calculated_scores' = done.cs
        /\ last' = [op |-> "submit", team |-> team, session_id |-> session_id,
                    score_data |-> score_data, outcome |-> done.outcome,
                    count |-> done.returned,
                    old_scores |-> SessionScores(raw_scores, team, session_id),
                    member |-> 0, month |-> 0,
                    user |-> "", status |-> 0]
        /\ UNCHANGED <<team_admins, requests, teams, members, now, view>>

\* A call of update_session_scores(session_id, team, score_data).
UpdateSession(team, session_id, score_data) ==
    LET done == update_session_scores(raw_scores, calculated_scores, teams,
                                      members, now, session_id, team, score_data)
    IN  /\ calls < MaxCalls
        /\ calls' = calls + 1
        /\ raw_scores' = done.rs
        /\ calculated_scores' = done.cs
        /\ last' = [op |-> "update", team |-> team, session_id |-> session_id,
                    score_data |-> score_data, outcome |-> done.outcome,
                    count |-> done.returned,
                    old_scores |-> SessionScores(raw_scores, team, session_id),
                    member |-> 0, month |-> 0,
                    user |-> "", status |-> 0]
        /\ UNCHANGED <<team_admins, requests, teams, members, now, view>>

\* A session delete by an admin of the team.
DeleteSession(team, session_id) ==
    LET done == session_delete(raw_scores, calculated_scores, teams,
                               session_id, team)
    IN  /\ calls < MaxCalls
        /\ calls' = calls + 1
        /\ raw_scores' = done.rs
        /\ calculated_scores' = done.cs
        /\ last' = [op |-> "delete", team |-> team, session_id |-> session_id,
                    score_data |-> <<>>, outcome |-> done.outcome,
                    count |-> done.returned,
                    old_scores |-> SessionScores(raw_scores, team, session_id),
                    member |-> 0, month |-> 0,
                    user |-> "", status |-> 0]
        /\ UNCHANGED <<team_admins, requests, teams, members, now, view>>

Next ==
    \/ \E team \in TeamIds, session_id \in SessionIds :
          \E score_data \in ScoreData[team] :
              SubmitSession(team, session_id, score_data)
    \/ \E team \in TeamIds, session_id \in SessionIds :
          \E score_data \in ScoreData[team] :
              UpdateSession(team, session_id, score_data)
    \/ \E team \in TeamIds, session_id \in SessionIds :
          DeleteSession(team, session_id)

Spec == Init /\ [][Next]_vars

---------------------------------------------------------------------------
(* The league seen through its read paths: one team plays sessions with    *)
(* every pattern of ties, members are deleted, rollups are recomputed,     *)
(* the month passes, and the read paths are called.                        *)

\* The team whose league is followed.
LeagueTeam == 1

\* A team created with the chombo penalty switched off.
NoChomboTeam == [DefaultTeam EXCEPT !.chombo_enabled = FALSE]

\* (score, chombo) by seat: one tied pair, a tied triple, all four equal.
OnePair ==
    <<[score |-> 35000, chombo |-> 0], [score |-> 35000, chombo |-> 0],
      [score |-> 30000, chombo |-> 0], [score |-> 20000, chombo |-> 1]>>
Triple ==
    <<[score |-> 45000, chombo |-> 0], [score |-> 25000, chombo |-> 0],
      [score |-> 25000, chombo |-> 0], [score |-> 25000, chombo |-> 0]>>
AllEqual ==
    <<[score |-> 30000, chombo |-> 0], [score |-> 30000, chombo |-> 0],
      [score |-> 30000, chombo |-> 0], [score |-> 30000, chombo |-> 0]>>

\* The sessions the league plays, all at table A: every pattern of ties
\* under the first session id, distinct scores under the others.
LeagueData ==
    [session_id \in SessionIds |->
        IF session_id = "s1"
        THEN {Entries(TableA, Distinct), Entries(TableA, OnePair),
              Entries(TableA, Tied), Entries(TableA, Triple),
              Entries(TableA, AllEqual)}
        ELSE {Entries(TableA, Distinct)}]

\* The members deleted, and those whose rollup is recomputed on its own.
Leavers == {4}
Recalculated == {1}

InitLeague ==
    /\ raw_scores = [k \in TeamIds \X SessionIds |-> {}]
    /\ calculated_scores = <<>>
    /\ teams \in {[t \in TeamIds |-> IF t = LeagueTeam THEN cfg ELSE DefaultTeam] :
                    cfg \in {DefaultTeam, NoChomboTeam}}
    /\ last = NoCall
    /\ calls = 0
    /\ members = MemberIds
    /\ now = 1
    /\ view = None
    /\ team_admins = FoundingAdmins
    /\ requests = [w \in Workers |-> Idle]

\* MemberDeleteView: the member is deleted.
DeleteMember(member) ==
    LET done == member_delete(raw_scores, calculated_scores, members, member)
    IN  /\ calls < MaxCalls
        /\ member \in members
        /\ calls' = calls + 1
        /\ raw_scores' = done.rs
        /\ calculated_scores' = done.cs
        /\ members' = done.mem
        /\ last' = [NoCall EXCEPT !.op = "delete_member", !.member = member,
                                  !.team = Member[member].team, !.outcome = "ok"]
        /\ UNCHANGED <<team_admins, requests, teams, now, view>>

\* A call of recalculate_member_score(member); count tells how many times
\* in a row the member's rollup has now been recomputed.
RecalculateMember(member) ==
    /\ calls < MaxCalls
    /\ member \in members
    /\ calls' = calls + 1
    /\ calculated_scores' = recalculate_member_score(calculated_scores, raw_scores,
                                                     teams, {member})
    /\ last' = [NoCall EXCEPT !.op = "recalculate", !.member = member,
                              !.team = Member[member].team, !.outcome = "ok",
                              !.count = IF last.op = "recalculate" /\ last.member = member
                                        THEN last.count + 1 ELSE 1]
    /\ UNCHANGED <<team_admins, requests, raw_scores, teams, members, now, view>>

\* The month ends.
Tick ==
    /\ calls < MaxCalls
    /\ now < MaxMonth
    /\ calls' = calls + 1
    /\ now' = now + 1
    /\ last' = [NoCall EXCEPT !.op = "tick"]
    /\ UNCHANGED <<team_admins, requests, raw_scores, calculated_scores, teams, members, view>>

\* A call of get_session_details(session_id, team).
SessionDetails(team, session_id) ==
    /\ calls < MaxCalls
    /\ calls' = calls + 1
    /\ view' = get_session_details(raw_scores, teams, session_id, team)
    /\ last' = [NoCall EXCEPT !.op = "session_details", !.team = team,
                              !.session_id = session_id, !.outcome = "ok"]
    /\ UNCHANGED <<team_admins, requests, raw_scores, calculated_scores, teams, members, now>>

\* A call of get_team_standings_by_month(team, month, year).
MonthlyStandings(team, month) ==
    /\ calls < MaxCalls
    /\ calls' = calls + 1
    /\ view' = get_team_standings_by_month(raw_scores, teams, members, team, month)
    /\ last' = [NoCall EXCEPT !.op = "standings_by_month", !.team = team,
                              !.month = month, !.outcome = "ok"]
    /\ UNCHANGED <<team_admins, requests, raw_scores, calculated_scores, teams, members, now>>

\* A call of get_team_standings(team), evaluated by either kind of database.
TeamStandings(team) ==
    /\ calls < MaxCalls
    /\ calls' = calls + 1
    /\ \E nulls_first \in BOOLEAN :
          view' = get_team_standings(calculated_scores, members, team, nulls_first)
    /\ last' = [NoCall EXCEPT !.op = "standings", !.team = team, !.outcome = "ok"]
    /\ UNCHANGED <<team_admins, requests, raw_scores, calculated_scores, teams, members, now>>

\* A call of team.get_standings().
GetStandings(team) ==
    /\ calls < MaxCalls
    /\ calls' = calls + 1
    /\ view' = Team_get_standings(calculated_scores, members, team)
    /\ last' = [NoCall EXCEPT !.op = "get_standings", !.team = team, !.outcome = "ok"]
    /\ UNCHANGED <<team_admins, requests, raw_scores, calculated_scores, teams, members, now>>

NextLeague ==
    \/ \E session_id \in SessionIds :
          \E score_data \in LeagueData[session_id] :
              SubmitSession(LeagueTeam, session_id, score_data)
    \/ \E member \in Leavers : DeleteMember(member)
    \/ \E member \in Recalculated : RecalculateMember(member)
    \/ Tick
    \/ \E session_id \in SessionIds : SessionDetails(LeagueTeam, session_id)
    \/ \E month \in 1..MaxMonth : MonthlyStandings(LeagueTeam, month)
    \/ TeamStandings(LeagueTeam)
    \/ GetStandings(LeagueTeam)

LeagueSpec == InitLeague /\ [][NextLeague]_vars

---------------------------------------------------------------------------
(* The site: the REST endpoints as seen by the users that call them, the   *)
(* team form, and rows saved one at a time.                                *)

\* Member.name: unique within a team, not across teams.
PlayerNames == <<"P1", "P2", "P3", "P4", "P5", "P6", "P7", "P8">>
MemberName(m) == PlayerNames[IF m > 10 THEN m - 10 ELSE m]

\* (score, chombo) by seat: all scores distinct, nobody penalised.
Plain ==
    <<[score |-> 42000, chombo |-> 0], [score |-> 31000, chombo |-> 0],
      [score |-> 19000, chombo |-> 0], [score |-> 8000, chombo |-> 0]>>

\* The scores of a request body naming the members of `table`.
Body(table, payload) ==
    [i \in DOMAIN table |->
        [member_name |-> MemberName(table[i]), score |-> payload[i].score,
         chombo |-> payload[i].chombo]]

\* The bodies the clients send: two well-formed ones at disjoint tables,
\* one of three entries and one naming a player twice.
Bodies ==
    {Body(TableA, Plain), Body(TableC, Distinct),
     Body(<<1, 2, 3>>, Plain), Body(<<1, 1, 2, 3>>, Plain)}

\* An admin check that accepts the admin of any team.
is_admin_of_some_team(admins, user, team) ==
    \E t \in TeamIds : <<user, t>> \in admins

\* team.admins.filter(user=request.user).exists()
is_team_admin(admins, user, team) == <<user, team>> \in admins

\* Member.objects.get(name=value, team=team) raises DoesNotExist.
NoSuchMember(mem, team, name) ==
    ~\E m \in mem : Member[m].team = team /\ MemberName(m) = name

\* SessionScoresSerializer(data, context={'team': team}).is_valid() is
\* false: an entry fails ScoreEntrySerializer, or validate_scores raises.
SerializerRejects(mem, team, scores) ==
    \/ \E i \in DOMAIN scores :
          \/ Missing(scores[i], "member_name")
          \/ Missing(scores[i], "score")
          \/ Get(scores[i], "chombo", 0) < 0
          \/ NoSuchMember(mem, team, scores[i].member_name)
    \/ Len(scores) # 4
    \/ \E i, j \in DOMAIN scores :
          i # j /\ scores[i].member_name = scores[j].member_name

\* converted_scores: every member_name replaced by the id of the member of
\* the team that carries it.
ConvertedScores(mem, team, scores) ==
    [i \in DOMAIN scores |->
        [member_id |-> CHOOSE m \in mem :
                          Member[m].team = team /\ MemberName(m) = scores[i].member_name,
         score |-> scores[i].score,
         chombo |-> Get(scores[i], "chombo", 0)]]

\* SessionSubmitAPIView.post answering 409 for a complete session only.
post_refuses_complete_sessions(rs, cs, cfg, mem, admins, created_at, user, team, session_id, scores) ==
    IF ~is_team_admin(admins, user, team)
    THEN [status |-> 403, rs |-> rs, cs |-> cs]
    ELSE IF SerializerRejects(mem, team, scores)
    THEN [status |-> 400, rs |-> rs, cs |-> cs]
    ELSE IF Cardinality(SessionScores(rs, team, session_id)) = 4
    THEN [status |-> 409, rs |-> rs, cs |-> cs]
    ELSE LET done == submit_session_scores(rs, cs, cfg, mem, created_at, session_id,
                        team, ConvertedScores(mem, team, scores))
         IN  [status |-> IF done.outcome = "ok" THEN 201 ELSE 400,
              rs |-> done.rs, cs |-> done.cs]

\* SessionSubmitAPIView.post: the response status and the tables left.
SessionSubmitAPIView_post(rs, cs, cfg, mem, admins, created_at, user, team, session_id, scores) ==
    IF ~is_team_admin(admins, user, team)
    THEN [status |-> 403, rs |-> rs, cs |-> cs]
    ELSE IF SerializerRejects(mem, team, scores)
    THEN [status |-> 400, rs |-> rs, cs |-> cs]
    ELSE IF SessionScores(rs, team, session_id) # {}
    THEN [status |-> 409, rs |-> rs, cs |-> cs]
    ELSE LET done == submit_session_scores(rs, cs, cfg, mem, created_at, session_id,
                        team, ConvertedScores(mem, team, scores))
         IN  [status |-> IF done.outcome = "ok" THEN 201 ELSE 400,
              rs |-> done.rs, cs |-> done.cs]

\* SessionUpdateAPIView.put: the response status and the tables left.
SessionUpdateAPIView_put(rs, cs, cfg, mem, admins, created_at, user, team, session_id, scores) ==
    IF ~is_team_admin(admins, user, team)
    THEN [status |-> 403, rs |-> rs, cs |-> cs]
    ELSE IF SessionScores(rs, team, session_id) = {}
    THEN [status |-> 404, rs |-> rs, cs |-> cs]
    ELSE IF SerializerRejects(mem, team, scores)
    THEN [status |-> 400, rs |-> rs, cs |-> cs]
    ELSE LET done == update_session_scores(rs, cs, cfg, mem, created_at, session_id,
                        team, ConvertedScores(mem, team, scores))
         IN  [status |-> IF done.outcome = "ok" THEN 200 ELSE 400,
              rs |-> done.rs, cs |-> done.cs]

\* SessionDeleteAPIView.delete: the response status and the tables left.
SessionDeleteAPIView_delete(rs, cs, cfg, admins, user, team, session_id) ==
    IF ~is_team_admin(admins, user, team)
    THEN [status |-> 403, rs |-> rs, cs |-> cs]
    ELSE LET done == session_delete(rs, cs, cfg, session_id, team)
         IN  [status |-> IF done.outcome = "ok" THEN 200 ELSE 404,
              rs |-> done.rs, cs |-> done.cs]

\* RawScore.save() of a new row of `member` (RawScore.objects.create, the
\* admin site): clean, the insert, then the member's own rollup.  The row
\* has no placement (0 stands for NULL) and no chombo.
RawScore_save(rs, cs, cfg, created_at, member, session_id, score) ==
    LET team == Member[member].team
        row == [member |-> member, score |-> score, chombo |-> 0, placement |-> 0,
                seq |-> LastSeq(rs, team, session_id) + 1,
                created_at |-> created_at]
        rows == [rs EXCEPT ![<<team, session_id>>] = @ \cup {row}]
    IN  IF RawScore_clean_fails(rs, member, session_id)
        THEN [outcome |-> "ValidationError", rs |-> rs, cs |-> cs]
        ELSE [outcome |-> "ok", rs |-> rows,
              cs |-> recalculate_member_score(cs, rows, cfg, {member})]

\* The scoring configurations the team form is saved with.
WideUma ==
    [target_point |-> 25000, uma_first |-> 30, uma_second |-> 10,
     uma_third |-> 0 - 10, uma_fourth |-> 0 - 20, chombo_enabled |-> TRUE]
TeamForms == {WideUma, NoChomboTeam}

\* The users that call the endpoints of the league team: one of its
\* admins and the admin of the other team.
Callers == {"ann", "eve"}

\* The members a single row is saved for, and its score.
Savers == {1, 5, 6, 7}
SavedScore == 27000

\* The session the site's clients work on.
SiteSession == "s1"

\* POST /api/teams/{team}/sessions/ by `user`.
ApiPost(user, team, session_id, scores) ==
    LET done == SessionSubmitAPIView_post(raw_scores, calculated_scores, teams,
                    members, team_admins, now, user, team, session_id, scores)
    IN  /\ calls < MaxCalls
        /\ calls' = calls + 1
        /\ raw_scores' = done.rs
        /\ calculated_scores' = done.cs
        /\ last' = [NoCall EXCEPT !.op = "post", !.user = user, !.team = team,
                                  !.session_id = session_id, !.score_data = scores,
                                  !.status = done.status,
                                  !.old_scores = SessionScores(raw_scores, team, session_id)]
        /\ UNCHANGED <<teams, members, now, view, team_admins, requests>>

\* PUT /api/teams/{team}/sessions/{session_id}/ by `user`.
ApiPut(user, team, session_id, scores) ==
    LET done == SessionUpdateAPIView_put(raw_scores, calculated_scores, teams,
                    members, team_admins, now, user, team, session_id, scores)
    IN  /\ calls < MaxCalls
        /\ calls' = calls + 1
        /\ raw_scores' = done.rs
        /\ calculated_scores' = done.cs
        /\ last' = [NoCall EXCEPT !.op = "put", !.user = user, !.team = team,
                                  !.session_id = session_id, !.score_data = scores,
                                  !.status = done.status,
                                  !.old_scores = SessionScores(raw_scores, team, session_id)]
        /\ UNCHANGED <<teams, members, now, view, team_admins, requests>>

\* DELETE /api/teams/{team}/sessions/{session_id}/delete/ by `user`.
ApiDelete(user, team, session_id) ==
    LET done == SessionDeleteAPIView_delete(raw_scores, calculated_scores, teams,
                    team_admins, user, team, session_id)
    IN  /\ calls < MaxCalls
        /\ calls' = calls + 1
        /\ raw_scores' = done.rs
        /\ calculated_scores' = done.cs
        /\ last' = [NoCall EXCEPT !.op = "delete", !.user = user, !.team = team,
                                  !.session_id = session_id,
                                  !.status = done.status,
                                  !.old_scores = SessionScores(raw_scores, team, session_id)]
        /\ UNCHANGED <<teams, members, now, view, team_admins, requests>>

\* A single row is saved for `member`.
SaveRawScore(member, session_id, score) ==
    LET done == RawScore_save(raw_scores, calculated_scores, teams, now,
                              member, session_id, score)
    IN  /\ calls < MaxCalls
        /\ member \in members
        /\ calls' = calls + 1
        /\ raw_scores' = done.rs
        /\ calculated_scores' = done.cs
        /\ last' = [NoCall EXCEPT !.op = "save", !.member = member,
                                  !.team = Member[member].team,
                                  !.session_id = session_id,
                                  !.outcome = done.outcome,
                                  !.old_scores = SessionScores(raw_scores,
                                                    Member[member].team, session_id)]
        /\ UNCHANGED <<teams, members, now, view, team_admins, requests>>

\* TeamUpdateView: the team form is saved by an admin of the team.
UpdateTeam(team, form) ==
    /\ calls < MaxCalls
    /\ calls' = calls + 1
    /\ teams' = [teams EXCEPT ![team] = form]
    /\ last' = [NoCall EXCEPT !.op = "update_team", !.team = team, !.outcome = "ok"]
    /\ UNCHANGED <<raw_scores, calculated_scores, members, now, view,
                   team_admins, requests>>

NextSite ==
    \/ \E user \in Callers, scores \in Bodies :
          ApiPost(user, LeagueTeam, SiteSession, scores)
    \/ \E user \in Callers, scores \in Bodies :
          ApiPut(user, LeagueTeam, SiteSession, scores)
    \/ \E user \in Callers : ApiDelete(user, LeagueTeam, SiteSession)
    \/ \E member \in Savers : SaveRawScore(member, SiteSession, SavedScore)
    \/ \E member \in Leavers : DeleteMember(member)
    \/ \E form \in TeamForms : UpdateTeam(LeagueTeam, form)
    \/ Tick

SiteSpec == Init /\ [][NextSite]_vars

---------------------------------------------------------------------------

(* The endpoints served by two workers at once.  A request is a sequence   *)
(* of database statements; between two statements of one request the       *)
(* other worker may run any of its own.  No handler opens a transaction    *)
(* or takes a lock, so each statement commits on its own.                  *)

\* The bodies sent while two requests are served: two well-formed ones at
\* disjoint tables.
RaceBodies == {Body(TableA, Plain), Body(TableC, Distinct)}

\* A worker that has taken a request and is about to run statement `pc`.
Serving(op, pc, user, team, session_id, score_data, affected, target) ==
    [op |-> op, pc |-> pc, user |-> user, team |-> team, session_id |-> session_id,
     score_data |-> score_data, affected |-> affected, target |-> target]

\* SessionSubmitAPIView.post up to and including existing_scores.exists():
\* a request that is refused ends here, another goes on to
\* submit_session_scores.
PostBegin(w, user, team, session_id, scores) ==
    /\ calls < MaxCalls
    /\ requests[w].op = "idle"
    /\ calls' = calls + 1
    /\ requests' =
          IF \/ ~is_team_admin(team_admins, user, team)
             \/ SerializerRejects(members, team, scores)
             \/ SessionScores(raw_scores, team, session_id) # {}
          THEN requests
          ELSE [requests EXCEPT ![w] =
                  Serving("post", "validate", user, team, session_id,
                          ConvertedScores(members, team, scores), {}, "")]
    /\ UNCHANGED <<raw_scores, calculated_scores, teams, last, members, now, view,
                   team_admins>>

\* SessionUpdateAPIView.put up to the call of update_session_scores.
PutBegin(w, user, team, session_id, scores) ==
    /\ calls < MaxCalls
    /\ requests[w].op = "idle"
    /\ calls' = calls + 1
    /\ requests' =
          IF \/ ~is_team_admin(team_admins, user, team)
             \/ SessionScores(raw_scores, team, session_id) = {}
             \/ SerializerRejects(members, team, scores)
          THEN requests
          ELSE [requests EXCEPT ![w] =
                  Serving("put", "delete", user, team, session_id,
                          ConvertedScores(members, team, scores), {}, "")]
    /\ UNCHANGED <<raw_scores, calculated_scores, teams, last, members, now, view,
                   team_admins>>

\* update_session_scores: affected_members is read and old_scores.delete()
\* runs; submit_session_scores follows.
PutDelete(w) ==
    LET r == requests[w]
    IN  /\ r.op = "put" /\ r.pc = "delete"
        /\ raw_scores' = [raw_scores EXCEPT ![<<r.team, r.session_id>>] = {}]
        /\ requests' = [requests EXCEPT ![w] =
              [r EXCEPT !.pc = "validate",
                        !.affected = {x.member : x \in SessionScores(raw_scores,
                                                        r.team, r.session_id)}]]
        /\ UNCHANGED <<calculated_scores, teams, last, calls, members, now, view,
                       team_admins>>

\* submit_session_scores: the validation loop.  A ValidationError ends the
\* request with 400.
SubmitValidate(w) ==
    LET r == requests[w]
    IN  /\ r.op \in {"post", "put"} /\ r.pc = "validate"
        /\ requests' = [requests EXCEPT ![w] =
              IF \E i \in DOMAIN r.score_data :
                    EntryRejected(raw_scores, members, r.team, r.session_id,
                                  r.score_data[i])
              THEN Idle
              ELSE [r EXCEPT !.pc = "insert"]]
        /\ UNCHANGED <<raw_scores, calculated_scores, teams, last, calls, members,
                       now, view, team_admins>>

\* submit_session_scores: bulk_create.  An IntegrityError ends the request
\* with 400 and inserts nothing.
SubmitInsert(w) ==
    LET r == requests[w]
        refused == UniqueTogetherViolated(raw_scores, r.session_id, r.score_data)
    IN  /\ r.op \in {"post", "put"} /\ r.pc = "insert"
        /\ raw_scores' =
              IF refused THEN raw_scores
              ELSE [raw_scores EXCEPT ![<<r.team, r.session_id>>] =
                      @ \cup NewRows(raw_scores, now, r.team, r.session_id,
                                     r.score_data)]
        /\ requests' = [requests EXCEPT ![w] =
              IF refused THEN Idle ELSE [r EXCEPT !.pc = "recalculate"]]
        /\ UNCHANGED <<calculated_scores, teams, last, calls, members, now, view,
                       team_admins>>

\* The recalculation loops at the end of submit_session_scores and of
\* update_session_scores; the response follows.
SubmitRecalculate(w) ==
    LET r == requests[w]
    IN  /\ r.op \in {"post", "put"} /\ r.pc = "recalculate"
        /\ calculated_scores' =
              recalculate_member_score(calculated_scores, raw_scores, teams,
                  r.affected \cup {r.score_data[i].member_id : i \in DOMAIN r.score_data})
        /\ requests' = [requests EXCEPT ![w] = Idle]
        /\ UNCHANGED <<raw_scores, teams, last, calls, members, now, view,
                       team_admins>>

\* SessionDeleteAPIView.delete up to and including the reading of
\* affected_members and count.
DeleteBegin(w, user, team, session_id) ==
    /\ calls < MaxCalls
    /\ requests[w].op = "idle"
    /\ calls' = calls + 1
    /\ requests' =
          IF \/ ~is_team_admin(team_admins, user, team)
             \/ SessionScores(raw_scores, team, session_id) = {}
          THEN requests
          ELSE [requests EXCEPT ![w] =
                  Serving("delete", "delete", user, team, session_id, <<>>,
                          {x.member : x \in SessionScores(raw_scores, team, session_id)},
                          "")]
    /\ UNCHANGED <<raw_scores, calculated_scores, teams, last, members, now, view,
                   team_admins>>

\* SessionDeleteAPIView.delete: session_scores.delete().
DeleteRows(w) ==
    LET r == requests[w]
    IN  /\ r.op = "delete" /\ r.pc = "delete"
        /\ raw_scores' = [raw_scores EXCEPT ![<<r.team, r.session_id>>] = {}]
        /\ requests' = [requests EXCEPT ![w] = [r EXCEPT !.pc = "recalculate"]]
        /\ UNCHANGED <<calculated_scores, teams, last, calls, members, now, view,
                       team_admins>>

\* SessionDeleteAPIView.delete: the recalculation loop and the response.
DeleteRecalculate(w) ==
    LET r == requests[w]
    IN  /\ r.op = "delete" /\ r.pc = "recalculate"
        /\ calculated_scores' =
              recalculate_member_score(calculated_scores, raw_scores, teams,
                                       r.affected)
        /\ requests' = [requests EXCEPT ![w] = Idle]
        /\ UNCHANGED <<raw_scores, teams, last, calls, members, now, view,
                       team_admins>>

\* RemoveTeamAdminView.dispatch for the TeamAdmin row of `target`: 404
\* when the row is gone, 403 when the user is no admin of the team, a
\* redirect when the team has one admin left; otherwise the view goes on.
RemoveAdminDispatch(w, user, team, target) ==
    /\ calls < MaxCalls
    /\ requests[w].op = "idle"
    /\ calls' = calls + 1
    /\ requests' =
          IF \/ <<target, team>> \notin team_admins
             \/ ~is_team_admin(team_admins, user, team)
             \/ Cardinality({u \in Users : <<u, team>> \in team_admins}) <= 1
          THEN requests
          ELSE [requests EXCEPT ![w] =
                  Serving("remove_admin", "delete", user, team, "", <<>>, {}, target)]
    /\ UNCHANGED <<raw_scores, calculated_scores, teams, last, members, now, view,
                   team_admins>>

\* DeleteView.post: the row is loaded again (404 when it is gone) and
\* deleted.
RemoveAdminDelete(w) ==
    LET r == requests[w]
    IN  /\ r.op = "remove_admin" /\ r.pc = "delete"
        /\ team_admins' = team_admins \ {<<r.target, r.team>>}
        /\ requests' = [requests EXCEPT ![w] = Idle]
        /\ UNCHANGED <<raw_scores, calculated_scores, teams, last, calls, members,
                       now, view>>

NextRace ==
    \E w \in Workers :
        \/ \E scores \in RaceBodies : PostBegin(w, "ann", LeagueTeam, SiteSession, scores)
        \/ \E scores \in RaceBodies : PutBegin(w, "ann", LeagueTeam, SiteSession, scores)
        \/ PutDelete(w)
        \/ SubmitValidate(w)
        \/ SubmitInsert(w)
        \/ SubmitRecalculate(w)
        \/ DeleteBegin(w, "ann", LeagueTeam, SiteSession)
        \/ DeleteRows(w)
        \/ DeleteRecalculate(w)
        \/ \E user, target \in {"ann", "bob"} :
              RemoveAdminDispatch(w, user, LeagueTeam, target)
        \/ RemoveAdminDelete(w)

RaceSpec == Init /\ [][NextRace]_vars

---------------------------------------------------------------------------

(* Properties of the session aggregator.                                   *)

\* What the last call was addressed to, and what it was given.
Addressed == <<last.team, last.session_id>>

\* The members that sat in the session when the call was made.
OldMembers(call) == {r.member : r \in call.old_scores}

WrongCount(score_data) == Len(score_data) # 4

MissingField(score_data) ==
    \E i \in DOMAIN score_data :
        Missing(score_data[i], "member_id") \/ Missing(score_data[i], "score")

ForeignMember(team, score_data) ==
    \E i \in DOMAIN score_data :
        /\ ~Missing(score_data[i], "member_id")
        /\ (score_data[i].member_id \in MemberIds =>
                Member[score_data[i].member_id].team # team)

DuplicateMember(score_data) ==
    \E i, j \in DOMAIN score_data :
        /\ i # j
        /\ ~Missing(score_data[i], "member_id")
        /\ ~Missing(score_data[j], "member_id")
        /\ score_data[i].member_id = score_data[j].member_id

GivenMembers(score_data) ==
    {score_data[i].member_id :
        i \in {j \in DOMAIN score_data : ~Missing(score_data[j], "member_id")}}

\* C1: after any sequence of submit, update and delete calls every
\* (team, session_id) holds either no RawScore row or exactly 4.
C1_ZeroOrFourRows ==
    \A k \in DOMAIN raw_scores : Cardinality(raw_scores[k]) \in {0, 4}

\* C2: an update of a complete session (4 rows) with entries that fail
\* validation (wrong count, a member not of the team, a missing field)
\* raises and leaves the RawScore table as it was.
C2_FailedUpdateKeepsRows ==
    [][(/\ last'.op = "update"
        /\ Cardinality(OldMembers(last')) = 4
        /\ \/ WrongCount(last'.score_data)
           \/ ForeignMember(last'.team, last'.score_data)
           \/ MissingField(last'.score_data))
       => (last'.outcome # "ok" /\ raw_scores' = raw_scores)]_vars

\* C3: a submit to a session that already holds 4 rows of the team is
\* rejected and adds no row, whoever the 4 submitted members are.
C3_SubmitOnCompleteRejected ==
    [][(last'.op = "submit" /\ Cardinality(OldMembers(last')) = 4)
       => (last'.outcome # "ok" /\ raw_scores' = raw_scores)]_vars

\* C4: an update of a session that does not hold exactly 4 rows of the
\* team fails and creates and deletes no row.
C4_UpdateNeedsCompleteSession ==
    [][(last'.op = "update" /\ Cardinality(OldMembers(last')) # 4)
       => (last'.outcome # "ok" /\ raw_scores' = raw_scores)]_vars

\* C5: a submit whose entries are not 4, or name a member that is not of
\* the team, or name a member that already has a row in the session,
\* raises ValidationError, persists no row and changes no CalculatedScore.
C5_SubmitValidation ==
    [][(/\ last'.op = "submit"
        /\ \/ WrongCount(last'.score_data)
           \/ ForeignMember(last'.team, last'.score_data)
           \/ GivenMembers(last'.score_data) \cap OldMembers(last') # {})
       => (/\ last'.outcome = "ValidationError"
           /\ raw_scores' = raw_scores
           /\ calculated_scores' = calculated_scores)]_vars

\* A submit of 4 entries, all of members of the team, one of whom already
\* sat in the session, was refused with ValidationError.
C5_Witness ==
    /\ last.op = "submit"
    /\ last.outcome = "ValidationError"
    /\ ~WrongCount(last.score_data)
    /\ ~MissingField(last.score_data)
    /\ ~ForeignMember(last.team, last.score_data)
    /\ GivenMembers(last.score_data) \cap OldMembers(last) # {}
    /\ Cardinality(raw_scores[Addressed]) = 4

\* C6: a submit of 4 entries in which one member_id appears twice is
\* refused with ValidationError and writes no row.
C6_DuplicateMemberIsValidationError ==
    [][(/\ last'.op = "submit"
        /\ ~WrongCount(last'.score_data)
        /\ DuplicateMember(last'.score_data))
       => (last'.outcome = "ValidationError" /\ raw_scores' = raw_scores)]_vars

\* The fields of a member's CalculatedScore, 0 for a member that has none.
GamesPlayed(cs, m) == IF m \in DOMAIN cs THEN cs[m].games_played ELSE 0

Total(cs, m) == IF m \in DOMAIN cs THEN cs[m].total ELSE 0

\* The session holds one row per entry, with the entry's member, score
\* and chombo, and no other row.
HoldsEntries(rows, score_data) ==
    /\ Cardinality(rows) = Len(score_data)
    /\ \A i \in DOMAIN score_data :
          \E r \in rows : /\ r.member = score_data[i].member_id
                          /\ r.score = score_data[i].score
                          /\ r.chombo = Get(score_data[i], "chombo", 0)

\* C7: a successful submit to an absent session persists exactly the 4
\* entries, and each participant's CalculatedScore then has one game more
\* than before and a total larger by the session's calculated score.
C7_SubmitCountsSession ==
    [][(last'.op = "submit" /\ last'.outcome = "ok" /\ OldMembers(last') = {})
       => (/\ HoldsEntries(raw_scores'[<<last'.team, last'.session_id>>],
                           last'.score_data)
           /\ \A m \in GivenMembers(last'.score_data) :
                /\ GamesPlayed(calculated_scores', m)
                     = GamesPlayed(calculated_scores, m) + 1
                /\ Total(calculated_scores', m)
                     = Total(calculated_scores, m)
                       + SessionStats(raw_scores', teams[last'.team], m,
                                      last'.session_id).calculated)]_vars

\* C8: after a successful update the rollup of every old and every new
\* participant is the one computed from the rows the update left: a
\* member the update removed no longer has the session among the sessions
\* counted, every member it names has, with the new score.
C8_UpdateRecalculatesOldAndNew ==
    [][(last'.op = "update" /\ last'.outcome = "ok")
       => (/\ \A m \in OldMembers(last') \cup GivenMembers(last'.score_data) :
                /\ m \in DOMAIN calculated_scores'
                /\ calculated_scores'[m]
                     = compute_stats(raw_scores', teams[last'.team], m)
                /\ calculated_scores'[m].games_played
                     = Cardinality(CountedSessions(raw_scores', m))
           /\ \A m \in OldMembers(last') \ GivenMembers(last'.score_data) :
                last'.session_id \notin CountedSessions(raw_scores', m)
           /\ \A m \in GivenMembers(last'.score_data) :
                last'.session_id \in CountedSessions(raw_scores', m))]_vars

\* An update of a complete session replaced one participant by a member
\* that did not sit in it and kept the other three.
C8_Witness ==
    /\ last.op = "update"
    /\ last.outcome = "ok"
    /\ Cardinality(OldMembers(last)) = 4
    /\ Cardinality(OldMembers(last) \cap GivenMembers(last.score_data)) = 3
    /\ \E m \in OldMembers(last) \ GivenMembers(last.score_data) :
          /\ m \in DOMAIN calculated_scores
          /\ calculated_scores[m].games_played = 0

\* C9: after a successful update of a complete session the session holds
\* exactly 4 rows, one per entry with the entry's score; the rows of
\* every other (team, session_id) are unchanged, and so is the
\* CalculatedScore of every member of another team and of every member
\* of the team that sat in the session neither before nor after.
C9_UpdateFrame ==
    [][(last'.op = "update" /\ last'.outcome = "ok"
            /\ Cardinality(OldMembers(last')) = 4)
       => (/\ HoldsEntries(raw_scores'[<<last'.team, last'.session_id>>],
                           last'.score_data)
           /\ Cardinality(raw_scores'[<<last'.team, last'.session_id>>]) = 4
           /\ \A k \in DOMAIN raw_scores :
                k # <<last'.team, last'.session_id>>
                    => raw_scores'[k] = raw_scores[k]
           /\ \A m \in MemberIds \
                    (OldMembers(last') \cup GivenMembers(last'.score_data)) :
                /\ (m \in DOMAIN calculated_scores') = (m \in DOMAIN calculated_scores)
                /\ m \in DOMAIN calculated_scores
                      => calculated_scores'[m] = calculated_scores[m])]_vars

\* An update of a complete session changed the score of a member that
\* stayed, while the other team held a counted session under the same
\* session_id and the team held another session.
C9_Witness ==
    /\ last.op = "update"
    /\ last.outcome = "ok"
    /\ Cardinality(OldMembers(last)) = 4
    /\ \E r \in last.old_scores, i \in DOMAIN last.score_data :
          /\ r.member = last.score_data[i].member_id
          /\ r.score # last.score_data[i].score
    /\ \E t \in TeamIds \ {last.team} :
          /\ raw_scores[<<t, last.session_id>>] # {}
          /\ \E m \in DOMAIN calculated_scores :
                Member[m].team = t /\ calculated_scores[m].games_played = 1
    /\ \E sid \in SessionIds \ {last.session_id} :
          raw_scores[<<last.team, sid>>] # {}

\* C10: a delete of a session that holds n >= 1 rows removes them all,
\* returns n and recomputes the rollup of every former participant; when
\* the session was complete each of them then has exactly one game less
\* than before.  A delete of a session without rows is answered not-found
\* and changes nothing.
C10_DeleteSession ==
    [][(last'.op = "delete")
       => IF OldMembers(last') # {}
          THEN /\ last'.outcome = "ok"
               /\ raw_scores'[<<last'.team, last'.session_id>>] = {}
               /\ last'.count = Cardinality(OldMembers(last'))
               /\ \A m \in OldMembers(last') :
                    /\ m \in DOMAIN calculated_scores'
                    /\ calculated_scores'[m]
                         = compute_stats(raw_scores', teams[last'.team], m)
                    /\ Cardinality(OldMembers(last')) = 4
                         => GamesPlayed(calculated_scores', m)
                              = GamesPlayed(calculated_scores, m) - 1
          ELSE /\ last'.outcome = "NotFound"
               /\ raw_scores' = raw_scores
               /\ calculated_scores' = calculated_scores]_vars

---------------------------------------------------------------------------
(* Properties of placements, rollups and read paths.                       *)

\* The number of entries of score_data that carry the score of entry i.
TieSize(score_data, i) ==
    Cardinality({j \in DOMAIN score_data : score_data[j].score = score_data[i].score})

\* The sum of f[x] over the domain of f.
RECURSIVE SumOf(_)
SumOf(f) ==
    IF DOMAIN f = {} THEN 0
    ELSE LET x == CHOOSE y \in DOMAIN f : TRUE
         IN  f[x] + SumOf([y \in DOMAIN f \ {x} |-> f[y]])

\* C11: whatever the pattern of ties among the 4 scores, the 4 placements
\* that submit_session_scores assigns to the entries sum to exactly 10.
C11_PlacementsSumToTen ==
    [][(last'.op = "submit" /\ last'.outcome = "ok")
       => SumOf([i \in DOMAIN last'.score_data |->
                    AssignedPlacement2(last'.score_data, i)]) = 2 * 10]_vars

\* A session in which three players tied below the winner was submitted.
C11_Witness ==
    /\ last.op = "submit"
    /\ last.outcome = "ok"
    /\ \E i \in DOMAIN last.score_data : TieSize(last.score_data, i) = 3
    /\ Cardinality(raw_scores[Addressed]) = 4

\* The tie rule: a row whose score is shared by k rows of the session, with
\* `above` rows of higher score, occupies the ranks above+1 .. above+k.
RanksAbove(rows, mine) == Cardinality({s \in rows : s.score > mine.score})

ClusterSize(rows, mine) == Cardinality({s \in rows : s.score = mine.score})

\* Twice the average of the ranks above+1 .. above+k.
ClusterPlacement2(rows, mine) ==
    2 * RanksAbove(rows, mine) + ClusterSize(rows, mine) + 1

\* The uma configured for a rank.
ConfiguredUma(team, rank) ==
    <<team.uma_first, team.uma_second, team.uma_third, team.uma_fourth>>[rank]

\* The average of the configured uma of the ranks of the cluster, in
\* 1/PointScale points.
ClusterUma(team, rows, mine) ==
    LET above == RanksAbove(rows, mine)
        k == ClusterSize(rows, mine)
    IN  (SumOf([rank \in (above + 1)..(above + k) |-> ConfiguredUma(team, rank)])
            * PointScale) \div k

\* The per-unit chombo penalty of a row, in 1/PointScale points.
ChomboPenalty(team, row) ==
    IF row.chombo > 0 /\ team.chombo_enabled THEN 30 * row.chombo * PointScale ELSE 0

\* The row of a member among rows.
RowOf(rows, member) == CHOOSE r \in rows : r.member = member

\* get_session_details reports the tie rule's placement and uma.
DetailsFollowTieRule(details, rows, team) ==
    \A p \in details.players :
        /\ p.placement2 = ClusterPlacement2(rows, RowOf(rows, p.member))
        /\ p.uma = ClusterUma(team, rows, RowOf(rows, p.member))

\* get_team_standings_by_month reports, for every member, the average of
\* the tie rule's placements and the sum of base score, the tie rule's
\* uma and the chombo penalty over the member's counted sessions.
MonthlyFollowsTieRule(standings, rs, cfg, team, month) ==
    \A m \in DOMAIN standings.attrs :
        LET counted == {sid \in MonthlySessions(rs, team, month) :
                            \E r \in MonthlySession(rs, team, sid, month) : r.member = m}
            Rows(sid) == MonthlySession(rs, team, sid, month)
            placements == SumOf([sid \in counted |->
                                ClusterPlacement2(Rows(sid), RowOf(Rows(sid), m))])
            total == SumOf([sid \in counted |->
                            (RowOf(Rows(sid), m).score - cfg[team].target_point)
                                * (PointScale \div 1000)
                            + ClusterUma(cfg[team], Rows(sid), RowOf(Rows(sid), m))
                            - ChomboPenalty(cfg[team], RowOf(Rows(sid), m))])
        IN  counted # {} =>
                /\ standings.attrs[m].monthly_avg_placement
                        = Fraction(placements, 2 * Cardinality(counted))
                /\ standings.attrs[m].monthly_total = total

\* C12: get_team_standings_by_month and get_session_details give every
\* player of a tie cluster on the ranks r..r+k-1 the average of those
\* ranks as placement and the average of their configured uma as uma.
C12_TieClusterAverages ==
    [][/\ (last'.op = "session_details" /\ view' # None)
            => DetailsFollowTieRule(view',
                    raw_scores'[<<last'.team, last'.session_id>>], teams[last'.team])
       /\ last'.op = "standings_by_month"
            => MonthlyFollowsTieRule(view', raw_scores', teams, last'.team,
                                     last'.month)]_vars

\* The members whose rollup the last call recomputed.
Recomputed(call) ==
    IF call.op \in {"submit", "update"} /\ call.outcome = "ok"
    THEN GivenMembers(call.score_data) \cup OldMembers(call)
    ELSE IF call.op = "recalculate" THEN {call.member}
    ELSE {}

\* The rollup of member m is the one the tie rule gives over the rows rs:
\* average_placement is the average of the tie rule's placements and
\* total the sum of base score, the tie rule's uma and the chombo penalty
\* over the complete sessions of the member.
RollupFollowsTieRule(rollup, rs, team, m) ==
    LET counted == CountedSessions(rs, m)
        Rows(sid) == SessionScores(rs, Member[m].team, sid)
        placements == SumOf([sid \in counted |->
                            ClusterPlacement2(Rows(sid), RowOf(Rows(sid), m))])
        total == SumOf([sid \in counted |->
                        (RowOf(Rows(sid), m).score - team.target_point)
                            * (PointScale \div 1000)
                        + ClusterUma(team, Rows(sid), RowOf(Rows(sid), m))
                        - ChomboPenalty(team, RowOf(Rows(sid), m))])
    IN  counted # {} =>
            /\ rollup.average_placement = Fraction(placements, 2 * Cardinality(counted))
            /\ rollup.total = total

\* Two members of a complete session with equal score and equal chombo
\* get equal contributions from it.
TiedMembersShareAlike(rs, team) ==
    \A sid \in SessionIds :
        LET rows == SessionScores(rs, team, sid)
        IN  Cardinality(rows) = 4 =>
                \A r1, r2 \in rows :
                    (r1.score = r2.score /\ r1.chombo = r2.chombo)
                        => SessionStats(rs, teams[team], r1.member, sid)
                             = SessionStats(rs, teams[team], r2.member, sid)

\* C13: the rollup that recalculate_member_score stores resolves ties as
\* the placement resolver does: in a complete session where the member's
\* score equals another's, the placement that enters average_placement
\* and the uma that enters total are the averages over the tied ranks, so
\* tied members with equal chombo get equal contributions.
C13_RollupFollowsTieRule ==
    [][\A m \in Recomputed(last') \cap members' :
            /\ RollupFollowsTieRule(calculated_scores'[m], raw_scores',
                                    teams[Member[m].team], m)
            /\ TiedMembersShareAlike(raw_scores', Member[m].team)]_vars

\* Every CalculatedScore of the team is the one compute_stats gives for
\* the rows rs, and a member without CalculatedScore has no session.
FreshRollups(cs, rs, cfg, mem, team) ==
    \A m \in TeamMembers(mem, team) :
        IF m \in DOMAIN cs
        THEN cs[m] = compute_stats(rs, cfg[team], m)
        ELSE CountedSessions(rs, m) = {}

\* The team has rows, all of them created in the month.
AllCreatedIn(rs, team, month) ==
    /\ \E sid \in SessionIds : SessionScores(rs, team, sid) # {}
    /\ \A sid \in SessionIds :
          \A r \in SessionScores(rs, team, sid) : r.created_at = month

\* The monthly attributes of member m repeat the member's rollup.
MonthlyEqualsRollup(attrs, cs, m) ==
    IF m \in DOMAIN cs
    THEN /\ attrs.monthly_total = cs[m].total
         /\ attrs.monthly_games = cs[m].games_played
         /\ attrs.monthly_avg_placement = cs[m].average_placement
         /\ attrs.monthly_chombo_count = cs[m].chombo_count
    ELSE /\ attrs.monthly_total = 0
         /\ attrs.monthly_games = 0

\* C14: when all rows of a team were created in one month and the rollups
\* are fresh, get_team_standings_by_month for that month gives every
\* member the total, games, average placement and chombo count of the
\* member's CalculatedScore, ties included.
C14_MonthlyEqualsRollup ==
    [][(/\ last'.op = "standings_by_month"
        /\ AllCreatedIn(raw_scores', last'.team, last'.month)
        /\ FreshRollups(calculated_scores', raw_scores', teams, members',
                        last'.team))
       => \A m \in DOMAIN view'.attrs :
            MonthlyEqualsRollup(view'.attrs[m], calculated_scores', m)]_vars

\* C15: recalculate_member_score is idempotent: a second call for the same
\* member right after the first, with no RawScore and no team
\* configuration changed in between, leaves every field of the member's
\* CalculatedScore (and the whole table) as the first call left it.
C15_RecalculateIdempotent ==
    [][(last'.op = "recalculate" /\ last'.count >= 2)
       => /\ calculated_scores'[last'.member] = calculated_scores[last'.member]
          /\ calculated_scores' = calculated_scores]_vars

\* A member that has played was recalculated twice in a row, after the
\* deletion of another member had left the stored rollup stale or not.
C15_Witness ==
    /\ last.op = "recalculate"
    /\ last.count = 2
    /\ calculated_scores[last.member].games_played >= 1
    /\ calculated_scores[last.member].total # 0

\* The RawScore table without the sessions that hold fewer than 4 rows.
WithoutIncomplete(rs) ==
    [k \in DOMAIN rs |-> IF Cardinality(rs[k]) < 4 THEN {} ELSE rs[k]]

\* The sessions of the team that hold 1 to 3 rows, one of them the member's.
IncompleteSessionsOf(rs, m) ==
    {sid \in SessionIds :
        LET rows == SessionScores(rs, Member[m].team, sid)
        IN  Cardinality(rows) < 4 /\ \E r \in rows : r.member = m}

\* C16: a session with fewer than 4 rows of the team contributes nothing
\* to a rollup that recalculate_member_score computes (the rollup is the
\* one computed with those sessions left out), get_session_details
\* returns None for it, and both calls return normally.
C16_IncompleteSessionsExcluded ==
    [][/\ \A m \in Recomputed(last') \cap members' :
            /\ calculated_scores'[m]
                  = compute_stats(WithoutIncomplete(raw_scores'),
                                  teams[Member[m].team], m)
            /\ calculated_scores'[m].games_played
                  = Cardinality({sid \in SessionIds :
                        LET rows == SessionScores(raw_scores', Member[m].team, sid)
                        IN  Cardinality(rows) = 4 /\ \E r \in rows : r.member = m})
       /\ last'.op \in {"recalculate", "session_details"} => last'.outcome = "ok"
       /\ (/\ last'.op = "session_details"
           /\ Cardinality(raw_scores'[<<last'.team, last'.session_id>>]) < 4)
            => view' = None]_vars

\* The rollup of a member was recomputed while the member's only session
\* had lost a row to the deletion of another member: it counts no game.
C16_Witness ==
    /\ last.op = "recalculate"
    /\ IncompleteSessionsOf(raw_scores, last.member) # {}
    /\ calculated_scores[last.member].games_played = 0
    /\ calculated_scores[last.member].total = 0

\* The RawScore table with every chombo count set to 0.
WithoutChombo(rs) ==
    [k \in DOMAIN rs |-> {[r EXCEPT !.chombo = 0] : r \in rs[k]}]

\* The calculated score get_session_details reports for a member.
DetailsScore(details, m) ==
    (CHOOSE p \in details.players : p.member = m).calculated_score

\* C17: the chombo penalty is applied only when the team's chombo_enabled
\* is true.  With it false, the rollup, the monthly standings and the
\* session details are the ones the same rows give with every chombo
\* count set to 0; with it true, a row with chombo c > 0 enters the rollup
\* with 30*c less than the same row without chombo.
C17_ChomboOnlyWhenEnabled ==
    [][/\ \A m \in Recomputed(last') \cap members' :
            LET team == teams[Member[m].team]
            IN  IF ~team.chombo_enabled
                THEN calculated_scores'[m]
                        = compute_stats(WithoutChombo(raw_scores'), team, m)
                ELSE \A sid \in CountedSessions(raw_scores', m) :
                        LET row == RowOf(SessionScores(raw_scores', Member[m].team, sid), m)
                        IN  row.chombo > 0 =>
                              SessionStats(raw_scores', team, m, sid).calculated
                                = SessionStats(WithoutChombo(raw_scores'), team, m,
                                               sid).calculated
                                  - 30 * row.chombo * PointScale
       /\ (last'.op = "standings_by_month" /\ ~teams[last'.team].chombo_enabled)
            => view'.attrs
                 = get_team_standings_by_month(WithoutChombo(raw_scores'), teams,
                        members', last'.team, last'.month).attrs
       /\ (/\ last'.op = "session_details"
           /\ view' # None
           /\ ~teams[last'.team].chombo_enabled)
            => \A p \in view'.players :
                 p.calculated_score
                   = DetailsScore(get_session_details(WithoutChombo(raw_scores'),
                                    teams, last'.session_id, last'.team), p.member)]_vars

\* A team with the penalty switched off submitted a session in which a
\* player had chombo 2: the player's rollup carries no chombo and the
\* total of the fourth place, (10000 - 30000)/1000 - 15 = -35.
C17_Witness ==
    /\ last.op = "submit"
    /\ last.outcome = "ok"
    /\ ~teams[last.team].chombo_enabled
    /\ \E i \in DOMAIN last.score_data :
          /\ last.score_data[i].chombo = MaxChombo
          /\ last.score_data[i].score = 10000
          /\ calculated_scores[last.score_data[i].member_id].games_played = 1
          /\ calculated_scores[last.score_data[i].member_id].chombo_count = 0
          /\ calculated_scores[last.score_data[i].member_id].total
                = (0 - 35) * PointScale

\* C18: for every player with chombo count c > 0 of a complete session of
\* a team with chombo_enabled, the calculated_score that
\* get_session_details reports is base_score + uma - 30*c, and it is the
\* value the rollup adds to the member's total for that session.
C18_DetailsPenaltyPerUnit ==
    [][(/\ last'.op = "session_details"
        /\ view' # None
        /\ teams[last'.team].chombo_enabled)
       => \A p \in view'.players :
            p.chombo > 0 =>
                /\ p.calculated_score
                      = p.base_score + p.uma - 30 * p.chombo * PointScale
                /\ p.calculated_score
                      = SessionStats(raw_scores', teams[last'.team], p.member,
                                     last'.session_id).calculated]_vars

\* The tie rule's placement of entry i among the entries, times two.
EntryPlacement2(score_data, i) ==
    2 * Cardinality({j \in DOMAIN score_data :
                        score_data[j].score > score_data[i].score})
    + TieSize(score_data, i) + 1

\* C19: round trip.  After a successful submit to a session without rows,
\* get_session_details reads back exactly the 4 submitted (member, score,
\* chombo) tuples, each with the tie rule's placement, fractional for a
\* tied player (1.5, 2.5, 3.5): the stored placement is not truncated.
C19_RoundTrip ==
    [][(last'.op = "submit" /\ last'.outcome = "ok" /\ OldMembers(last') = {})
       => LET details == get_session_details(raw_scores', teams,
                                             last'.session_id, last'.team)
          IN  /\ details # None
              /\ {<<p.member, p.raw_score, p.chombo, p.placement2>> :
                        p \in details.players}
                    = {<<last'.score_data[i].member_id, last'.score_data[i].score,
                         Get(last'.score_data[i], "chombo", 0),
                         EntryPlacement2(last'.score_data, i)>> :
                            i \in DOMAIN last'.score_data}]_vars

\* The total a member is ranked by: that of the member's CalculatedScore,
\* 0 for a member without one.
RankedTotal(cs, m) == IF m \in DOMAIN cs THEN cs[m].total ELSE 0

\* C20: get_team_standings returns all members of the team by descending
\* CalculatedScore.total, a member without CalculatedScore being placed
\* as if its total were 0: after every member with a positive total and
\* before every member with a negative total.
C20_StandingsOrder ==
    [][last'.op = "standings"
       => /\ DOMAIN view' = TeamMembers(members', last'.team)
          /\ \A m1, m2 \in DOMAIN view' :
                RankedTotal(calculated_scores', m1) > RankedTotal(calculated_scores', m2)
                    => view'[m1] < view'[m2]]_vars

---------------------------------------------------------------------------
(* Properties of the monthly standings, the caches and the endpoints.      *)

\* C21: get_team_standings_by_month returns the members by descending
\* monthly_total, and a member with no counted session in the month has
\* total, games and average 0 and comes after every member with a counted
\* session, also after one whose monthly_total is negative.
C21_IdleMembersLast ==
    [][last'.op = "standings_by_month"
       => LET order == view'.members
              attrs == view'.attrs
          IN  /\ \A i, j \in DOMAIN order :
                    i < j => attrs[order[i]].monthly_total
                                >= attrs[order[j]].monthly_total
              /\ \A i \in DOMAIN order :
                    attrs[order[i]].monthly_games = 0
                        => /\ attrs[order[i]].monthly_total = 0
                           /\ attrs[order[i]].monthly_average = Zero
                           /\ \A j \in DOMAIN order :
                                attrs[order[j]].monthly_games > 0 => j < i]_vars

\* The rows of a complete session with all scores distinct and no chombo.
PlainSession(rows) ==
    /\ Cardinality(rows) = 4
    /\ \A r1, r2 \in rows : r1 # r2 => r1.score # r2.score
    /\ \A r \in rows : r.chombo = 0

\* What the session adds to a member's rollup total: the total computed
\* from the rows less the total computed without the session.
AddedBySession(rs, cfg, m, team, session_id) ==
    compute_stats(rs, cfg, m).total
        - compute_stats([rs EXCEPT ![<<team, session_id>>] = {}], cfg, m).total

\* C22: the calculated scores a complete session with all-distinct scores
\* and no chombo adds to the rollups of its 4 players sum to
\* uma_first + uma_second + uma_third + uma_fourth plus the sum of
\* (score - target_point) / 1000; that is what the stored totals hold
\* after the session is posted, and with the default uma the uma part is 0.
C22_SessionSum ==
    [][(last'.op = "post" /\ last'.status = 201
            /\ PlainSession(SessionScores(raw_scores', last'.team, last'.session_id)))
       => LET team == last'.team
              cfg == teams'[team]
              rows == SessionScores(raw_scores', team, last'.session_id)
              players == {r.member : r \in rows}
              uma_part == cfg.uma_first + cfg.uma_second
                            + cfg.uma_third + cfg.uma_fourth
              base_part == SumOf([m \in players |->
                              (RowOf(rows, m).score - cfg.target_point)
                                  * (PointScale \div 1000)])
              added == SumOf([m \in players |->
                          AddedBySession(raw_scores', cfg, m, team, last'.session_id)])
          IN  /\ added = uma_part * PointScale + base_part
              /\ added = SumOf([m \in players |-> Total(calculated_scores', m)])
                            - SumOf([m \in players |->
                                  compute_stats([raw_scores' EXCEPT
                                      ![<<team, last'.session_id>>] = {}], cfg, m).total])
              /\ cfg = DefaultTeam => uma_part = 0 /\ added = base_part]_vars

\* A session of distinct scores without chombo was posted to a team whose
\* uma values do not sum to 0; all four rollups count it.
C22_Witness ==
    /\ last.op = "post"
    /\ last.status = 201
    /\ PlainSession(SessionScores(raw_scores, last.team, last.session_id))
    /\ teams[last.team] = WideUma
    /\ \A r \in SessionScores(raw_scores, last.team, last.session_id) :
            GamesPlayed(calculated_scores, r.member) = 1

\* C23 as stated: whatever its body, a POST by an admin of the team for
\* a session_id under which the team holds at least one row is answered
\* 409 and leaves the RawScore table as it was.
C23_PostOnExistingSession ==
    [][(/\ last'.op = "post"
        /\ last'.old_scores # {}
        /\ is_team_admin(team_admins, last'.user, last'.team))
       => (last'.status = 409 /\ raw_scores' = raw_scores)]_vars

\* C23, amended: a POST by an admin of the team whose body passes the
\* serializer, for a session_id under which the team holds at least one
\* row (be it a single one), is answered 409 and creates, deletes and
\* modifies no RawScore row; a body the serializer refuses is answered
\* 400, and no row is touched either.
C23_ValidPostOnExistingSession ==
    [][(/\ last'.op = "post"
        /\ last'.old_scores # {}
        /\ is_team_admin(team_admins, last'.user, last'.team))
       => /\ raw_scores' = raw_scores
          /\ calculated_scores' = calculated_scores
          /\ last'.status =
                IF SerializerRejects(members, last'.team, last'.score_data)
                THEN 400 ELSE 409]_vars

\* A well-formed POST by an admin met a session of a single row and was
\* answered 409.
C23_Witness ==
    /\ last.op = "post"
    /\ last.status = 409
    /\ Cardinality(last.old_scores) = 1
    /\ raw_scores[Addressed] = last.old_scores

\* C24: a POST, PUT or DELETE by a user who is not an admin of the team
\* addressed is answered 403 and leaves every RawScore and
\* CalculatedScore as it was.
C24_NonAdminForbidden ==
    [][(/\ last'.op \in {"post", "put", "delete"}
        /\ last'.user \in Users
        /\ <<last'.user, last'.team>> \notin team_admins)
       => (/\ last'.status = 403
           /\ raw_scores' = raw_scores
           /\ calculated_scores' = calculated_scores)]_vars

\* The admin of the other team asked to delete a complete session of the
\* league team, was answered 403, and the session is still there.
C24_Witness ==
    /\ last.op = "delete"
    /\ last.user \in Users
    /\ \E t \in TeamIds : <<last.user, t>> \in team_admins
    /\ <<last.user, last.team>> \notin team_admins
    /\ last.status = 403
    /\ Cardinality(raw_scores[Addressed]) = 4

\* The stored CalculatedScore of a member is what recalculate_member_score
\* would store for it from the rows rs.
RollupIsFresh(cs, rs, cfg, m) ==
    /\ m \in DOMAIN cs
    /\ cs[m] = compute_stats(rs, cfg[Member[m].team], m)

\* C26: after a RawScore.save() that brings a session to 4 rows, and
\* after the deletion of a member that takes one row of a complete
\* session with it, the CalculatedScore of every other player of the
\* session is what recalculate_member_score computes from the rows left.
C26_RowChangesKeepRollupsFresh ==
    [][/\ (/\ last'.op = "save"
           /\ last'.outcome = "ok"
           /\ Cardinality(raw_scores'[<<last'.team, last'.session_id>>]) = 4)
          => \A r \in raw_scores'[<<last'.team, last'.session_id>>] :
                r.member # last'.member
                    => RollupIsFresh(calculated_scores', raw_scores', teams',
                                     r.member)
       /\ last'.op = "delete_member"
          => \A k \in DOMAIN raw_scores :
                (/\ Cardinality(raw_scores[k]) = 4
                 /\ \E r \in raw_scores[k] : r.member = last'.member)
                => \A r \in raw_scores'[k] :
                      RollupIsFresh(calculated_scores', raw_scores', teams',
                                    r.member)]_vars

\* C27: after the team form is saved with another scoring configuration,
\* the stored CalculatedScore of every member of the team is what
\* recalculate_member_score computes under the new configuration.
C27_TeamUpdateRefreshesRollups ==
    [][last'.op = "update_team"
       => \A m \in DOMAIN calculated_scores' :
            Member[m].team = last'.team
                => calculated_scores'[m]
                        = compute_stats(raw_scores', teams'[last'.team], m)]_vars

\* The attributes the monthly standings promise on every member.
MonthlyFields ==
    {"monthly_total", "monthly_games", "monthly_average", "monthly_avg_placement",
     "monthly_chombo_count", "monthly_first_place", "monthly_second_place",
     "monthly_third_place", "monthly_fourth_place"}

\* C28: get_team_standings_by_month returns every member of the team with
\* monthly_total, monthly_games, monthly_average, monthly_avg_placement,
\* monthly_chombo_count and the four finish counts attached, also for a
\* month in which the team has no RawScore, where all of them are zero;
\* the four finish counts of a member sum to its monthly_games.
C28_MonthlyAttributes ==
    [][last'.op = "standings_by_month"
       => LET attrs == view'.attrs
              order == view'.members
              empty == \A sid \in SessionIds :
                          MonthlySession(raw_scores', last'.team, sid,
                                         last'.month) = {}
          IN  /\ DOMAIN attrs = TeamMembers(members', last'.team)
              /\ {order[i] : i \in DOMAIN order} = DOMAIN attrs
              /\ \A m \in DOMAIN attrs :
                    /\ MonthlyFields \subseteq DOMAIN attrs[m]
                    /\ attrs[m].monthly_first_place + attrs[m].monthly_second_place
                         + attrs[m].monthly_third_place + attrs[m].monthly_fourth_place
                            = attrs[m].monthly_games
                    /\ empty => /\ attrs[m].monthly_total = 0
                                /\ attrs[m].monthly_games = 0
                                /\ attrs[m].monthly_average = Zero
                                /\ attrs[m].monthly_avg_placement = Zero
                                /\ attrs[m].monthly_chombo_count = 0]_vars

\* C29: an update does not move a session to another month: a session
\* whose rows were created in month m and that is updated in a later
\* month is still counted by get_team_standings_by_month under m, and
\* not under the month of the update.
C29_UpdateKeepsMonth ==
    [][(/\ last'.op = "put"
        /\ last'.status = 200
        /\ Cardinality(last'.old_scores) = 4
        /\ \A r \in last'.old_scores : r.created_at < now)
       => \A r \in last'.old_scores :
            /\ last'.session_id
                    \in MonthlySessions(raw_scores', last'.team, r.created_at)
            /\ last'.session_id
                    \notin MonthlySessions(raw_scores', last'.team, now)]_vars

\* C25: whatever the interleaving of two session mutations served at the
\* same time on one session_id of a team, once both have been answered
\* the session holds no row or exactly 4.
C25_ConcurrentMutations ==
    (\A w \in Workers : requests[w].op = "idle")
        => \A k \in DOMAIN raw_scores : Cardinality(raw_scores[k]) \in {0, 4}

\* C30: a team that had an admin keeps at least one, however the
\* remove-admin requests of its admins interleave.
C30_NeverWithoutAdmin ==
    \A team \in TeamIds :
        (\E u \in Users : <<u, team>> \in FoundingAdmins)
            => \E u \in Users : <<u, team>> \in team_admins

====
